---- MODULE Spec2Model ----
(***************************************************************************)
(* Model of src/src/roots/roots.cpp: the four root finders bisection,      *)
(* regula_falsi, newton_raphson and secant.                                *)
(*                                                                         *)
(* One behaviour of the model is one call of one solver.  Init is the      *)
(* moment of the call (the arguments are bound, *root holds whatever the   *)
(* caller left there), the Entry action of a solver is the code before its *)
(* for loop, the Iter action is one execution of the loop body, and the    *)
(* Exhaust action is the failing loop test followed by the final           *)
(* `return false`.                                                         *)
(*                                                                         *)
(* A double is modelled as an exact rational <<n, d>> in lowest terms with *)
(* d > 0, so the arithmetic is that of the reals; the results IEEE-754     *)
(* gives to a division by zero are kept as <<1, 0>> (+inf), <<-1, 0>>      *)
(* (-inf) and <<0, 0>> (NaN).  Rounding, overflow to infinity and signed   *)
(* zeros are not modelled.  The arguments of a call are finite.            *)
(*                                                                         *)
(* The iteration cap 1e6 of the source is the definition MaxIter, scaled   *)
(* down so that TLC can run a loop to exhaustion; the tolerance 1e-6 is    *)
(* kept as it is, and the inputs are chosen around it.                     *)
(***************************************************************************)
EXTENDS Integers, Sequences, FiniteSets, TLC

\* The `1e6` of the four loop tests (roots.cpp lines 17, 48, 78, 119), scaled.
MaxIter == 3

----------------------------------------------------------------------------
(* Exact arithmetic on <<numerator, denominator>>.                         *)

AbsInt(n) == IF n < 0 THEN -n ELSE n

SignInt(n) == IF n < 0 THEN -1 ELSE IF n = 0 THEN 0 ELSE 1

RECURSIVE GCD(_, _)
GCD(m, n) == IF n = 0 THEN m ELSE GCD(n, m % n)

\* n/d in lowest terms; d = 0 gives the non-finite values.
Q(n, d) ==
    IF d = 0 THEN <<SignInt(n), 0>>
    ELSE LET s == IF d < 0 THEN -1 ELSE 1
             g == GCD(AbsInt(n), AbsInt(d))
         IN  <<(s * n) \div g, (s * d) \div g>>

Zero == <<0, 1>>
NaN == <<0, 0>>

IsNaN(x) == x = NaN
IsFinite(x) == x[2] # 0

Neg(x) == <<-x[1], x[2]>>

Add(x, y) ==
    IF IsNaN(x) \/ IsNaN(y) THEN NaN
    ELSE IF ~IsFinite(x) THEN (IF ~IsFinite(y) /\ y # x THEN NaN ELSE x)
    ELSE IF ~IsFinite(y) THEN y
    ELSE LET g == GCD(x[2], y[2])
         IN  Q(x[1] * (y[2] \div g) + y[1] * (x[2] \div g), (x[2] \div g) * y[2])

Sub(x, y) == Add(x, Neg(y))

Mul(x, y) ==
    IF IsNaN(x) \/ IsNaN(y) THEN NaN
    ELSE IF ~IsFinite(x) \/ ~IsFinite(y) THEN <<SignInt(x[1]) * SignInt(y[1]), 0>>
    ELSE LET g1 == GCD(AbsInt(x[1]), y[2])
             g2 == GCD(AbsInt(y[1]), x[2])
         IN  Q((x[1] \div g1) * (y[1] \div g2), (x[2] \div g2) * (y[2] \div g1))

\* 1/x; 1/0 is +inf (the zero of the model is +0), 1/inf is 0.
Inv(x) ==
    IF IsNaN(x) THEN NaN
    ELSE IF ~IsFinite(x) THEN Zero
    ELSE IF x[1] = 0 THEN <<1, 0>>
    ELSE Q(x[2], x[1])

Div(x, y) == Mul(x, Inv(y))

Abs(x) == <<AbsInt(x[1]), x[2]>>

\* a/b < c/d for b, d > 0, by comparing the continued fractions: no product
\* is formed, so the comparison is exact whatever the size of the terms.
RECURSIVE FracLt(_, _, _, _)
FracLt(a, b, c, d) ==
    LET qa == a \div b
        qc == c \div d
        ra == a % b
        rc == c % d
    IN  IF qa # qc THEN qa < qc
        ELSE IF rc = 0 THEN FALSE
        ELSE IF ra = 0 THEN TRUE
        ELSE FracLt(d, rc, b, ra)

\* x < y on doubles: false as soon as one side is NaN.
Lt(x, y) ==
    /\ ~IsNaN(x)
    /\ ~IsNaN(y)
    /\ IF ~IsFinite(x) THEN x[1] = -1 /\ y # x
       ELSE IF ~IsFinite(y) THEN y[1] = 1
       ELSE FracLt(x[1], x[2], y[1], y[2])

Gt(x, y) == Lt(y, x)

\* x == y on doubles.
Eq(x, y) == ~IsNaN(x) /\ ~IsNaN(y) /\ x = y

Ge(x, y) == Gt(x, y) \/ Eq(x, y)

Le(x, y) == Lt(x, y) \/ Eq(x, y)

\* The literal 1e-6 of the convergence and stability tests.
Tol == Q(1, 1000000)

----------------------------------------------------------------------------
(* The caller's callables.  The source takes f (and, for newton_raphson,   *)
(* its derivative g) as opaque std::function arguments; the model calls    *)
(* the solvers with this family.                                           *)
(*   lin    f(x) = x             g(x) = 1                                  *)
(*   steep  f(x) = 3000000x - 1  g(x) = 3000000                            *)
(*   sqm2   f(x) = x^2 - 2       g(x) = 2x                                 *)
(*   sqp1   f(x) = x^2 + 1       g(x) = 2x      (no real root)             *)
(*   sqs    f(x) = (1000000x)^2  g(x) = 2000000 * (1000000x)               *)
(*   zig    f(x) = |x| - 1       g(x) = sign(x) (roots -1 and 1)           *)
(*   one    f(x) = 1             g(x) = 0       (constant)                 *)
(*   flat   f(x) = x/2000000 + 1 g(x) = 1/2000000 (root -2000000)          *)

Fns == {"lin", "steep", "sqm2", "sqp1", "sqs", "zig", "one", "flat"}

F(fn, x) ==
    CASE fn = "lin"   -> x
      [] fn = "steep" -> Sub(Mul(Q(3000000, 1), x), Q(1, 1))
      [] fn = "sqm2"  -> Sub(Mul(x, x), Q(2, 1))
      [] fn = "sqp1"  -> Add(Mul(x, x), Q(1, 1))
      [] fn = "sqs"   -> Mul(Mul(Q(1000000, 1), x), Mul(Q(1000000, 1), x))
      [] fn = "zig"   -> Sub(Abs(x), Q(1, 1))
      [] fn = "one"   -> Q(1, 1)
      [] fn = "flat"  -> Add(Mul(Q(1, 2000000), x), Q(1, 1))

G(fn, x) ==
    CASE fn = "lin"   -> Q(1, 1)
      [] fn = "steep" -> Q(3000000, 1)
      [] fn = "sqm2"  -> Mul(Q(2, 1), x)
      [] fn = "sqp1"  -> Mul(Q(2, 1), x)
      [] fn = "sqs"   -> Mul(Q(2000000, 1), Mul(Q(1000000, 1), x))
      [] fn = "zig"   -> IF Lt(x, Zero) THEN Q(-1, 1)
                         ELSE IF Gt(x, Zero) THEN Q(1, 1) ELSE Zero
      [] fn = "one"   -> Zero
      [] fn = "flat"  -> Q(1, 2000000)

----------------------------------------------------------------------------
(* The arguments a call is made with.                                      *)

RECURSIVE Pow2(_)
Pow2(k) == IF k = 0 THEN 1 ELSE 2 * Pow2(k - 1)

\* -2, -1, 0, 1, 2
Coarse == {Q(k, 1) : k \in -2..2}

\* 2^k * 5e-7: half the tolerance, the tolerance, and its doublings, enough
\* of them for a halving iteration to need every step of the loop and more.
FinePos == {Q(Pow2(k), 2000000) : k \in 0..(MaxIter + 1)}

Fine == FinePos \cup {Neg(x) : x \in FinePos} \cup {Zero}

\* -4000000, -2000000, 0, 2000000
Far == {Q(2000000 * k, 1) : k \in -2..1}

\* The points each callable is called around: the steep ones near the
\* tolerance, the flat one far out, the others on the integers.
Points(fn) ==
    CASE fn \in {"steep", "sqs"} -> Fine
      [] fn = "flat"              -> Far
      [] OTHER                    -> Coarse

Solvers == {"bisection", "regula_falsi", "newton_raphson", "secant"}

\* What *root holds when the call is made.
RootBefore == Q(7, 1)

VARIABLES
    solver,     \* the function called
    fn,         \* the callable passed as f (and its g)
    a0, b0, c0, \* the arguments a, b, c as passed
    a, b,       \* the parameters a, b (bisection and regula_falsi assign them)
    xn,         \* newton_raphson, secant: the local xn
    prev_xn,    \* secant: the local prev_xn
    count,      \* the loop counter
    pc,         \* "entry": called; "loop": at the loop test; "done": returned
    ret,        \* "none" until the call returns, then "true" or "false"
    root,       \* the double *root points to
    writes,     \* number of assignments to *root
    calls,      \* number of invocations of f
    iters,      \* number of executions of the loop body
    divs        \* newton_raphson: number of quotients fx/dfx computed

vars == <<solver, fn, a0, b0, c0, a, b, xn, prev_xn, count, pc, ret, root,
          writes, calls, iters, divs>>

Init ==
    /\ solver \in Solvers
    /\ fn \in Fns
    /\ a0 \in Points(fn)
    /\ b0 \in Points(fn)
    /\ c0 \in (CASE solver = "newton_raphson" -> Points(fn)
                 [] solver = "secant"         -> {Zero, Q(1, 1)}
                 [] OTHER                     -> {Zero})
    /\ a = a0
    /\ b = b0
    /\ xn = Zero
    /\ prev_xn = Zero
    /\ count = 0
    /\ pc = "entry"
    /\ ret = "none"
    /\ root = RootBefore
    /\ writes = 0
    /\ calls = 0
    /\ iters = 0
    /\ divs = 0

\* An outcome of a piece of code: ret is "true"/"false" when it returns and
\* "none" when it falls through; write says whether it assigned val to *root;
\* calls is the number of times it invoked f.
Returned(v, val, n) == [ret |-> IF v THEN "true" ELSE "false", write |-> v, val |-> val, calls |-> n]
Through(n) == [ret |-> "none", write |-> FALSE, val |-> Zero, calls |-> n]

\* The effect of an outcome on *root, the return value and the control state.
Apply(o) ==
    /\ calls' = calls + o.calls
    /\ IF o.write
         THEN root' = o.val /\ writes' = writes + 1
         ELSE UNCHANGED <<root, writes>>
    /\ ret' = o.ret
    /\ pc' = IF o.ret = "none" THEN "loop" ELSE "done"

\* GiveUp, storing the last estimate before giving up.
GiveUpStoringEstimate ==
    /\ pc' = "done"
    /\ ret' = "false"
    /\ root' = xn
    /\ writes' = writes + 1
    /\ UNCHANGED calls

\* The loop test fails: fall out of the loop to the final `return false`.
GiveUp ==
    /\ pc' = "done"
    /\ ret' = "false"
    /\ UNCHANGED <<root, writes, calls>>

----------------------------------------------------------------------------
(* bisection, roots.cpp lines 4-36.                                        *)

\* BisectionPre with the two endpoint checks in the other order.
BisectionPreBFirst(f, x, y) ==
    IF Eq(F(f, y), Zero) THEN Returned(TRUE, y, 1)
    ELSE IF Eq(F(f, x), Zero) THEN Returned(TRUE, x, 2)
    ELSE IF Gt(Mul(F(f, x), F(f, y)), Zero) THEN Returned(FALSE, Zero, 4)
    ELSE Through(4)

\* Lines 8-14: the endpoint checks and the sign precondition.
BisectionPre(f, x, y) ==
    IF Eq(F(f, x), Zero) THEN Returned(TRUE, x, 1)
    ELSE IF Eq(F(f, y), Zero) THEN Returned(TRUE, y, 2)
    ELSE IF Gt(Mul(F(f, x), F(f, y)), Zero) THEN Returned(FALSE, Zero, 4)
    ELSE Through(4)

\* Line 19: the midpoint.
Midpoint(x, y) == Div(Add(x, y), Q(2, 1))

\* BisectionLoopTest, off by one.
BisectionLoopTestInclusive(n) == n <= MaxIter

\* Line 17: the loop test.
BisectionLoopTest(n) == n < MaxIter

\* BisectionBody, evaluating f(c) once more before the sign test.
BisectionBodyRecomputing(f, x, y) ==
    LET c == Midpoint(x, y)
    IN  IF Lt(Abs(F(f, c)), Tol) \/ Lt(Abs(Sub(y, x)), Tol)
          THEN [o |-> Returned(TRUE, c, 1), a |-> x, b |-> y]
        ELSE IF Gt(Mul(F(f, x), F(f, c)), Zero)
          THEN [o |-> Through(4), a |-> c, b |-> y]
        ELSE [o |-> Through(4), a |-> x, b |-> c]

\* Lines 19-31: one execution of the loop body on the bracket [x, y]; the
\* outcome, with the bracket it leaves.
BisectionBody(f, x, y) ==
    LET c == Midpoint(x, y)
    IN  IF Lt(Abs(F(f, c)), Tol) \/ Lt(Abs(Sub(y, x)), Tol)
          THEN [o |-> Returned(TRUE, c, 1), a |-> x, b |-> y]
        ELSE IF Gt(Mul(F(f, x), F(f, c)), Zero)
          THEN [o |-> Through(3), a |-> c, b |-> y]
        ELSE [o |-> Through(3), a |-> x, b |-> c]

BisectionEntry ==
    /\ solver = "bisection"
    /\ pc = "entry"
    /\ Apply(BisectionPre(fn, a, b))
    /\ count' = 0
    /\ UNCHANGED <<solver, fn, a0, b0, c0, a, b, xn, prev_xn, iters, divs>>

BisectionIter ==
    /\ solver = "bisection"
    /\ pc = "loop"
    /\ BisectionLoopTest(count)
    /\ LET r == BisectionBody(fn, a, b)
       IN  /\ Apply(r.o)
           /\ a' = r.a
           /\ b' = r.b
           /\ count' = IF r.o.ret = "none" THEN count + 1 ELSE count
    /\ iters' = iters + 1
    /\ UNCHANGED <<solver, fn, a0, b0, c0, xn, prev_xn, divs>>

BisectionExhaust ==
    /\ solver = "bisection"
    /\ pc = "loop"
    /\ ~BisectionLoopTest(count)
    /\ GiveUp
    /\ UNCHANGED <<solver, fn, a0, b0, c0, a, b, xn, prev_xn, count, iters, divs>>

----------------------------------------------------------------------------
(* regula_falsi, roots.cpp lines 38-67.                                    *)

\* RegulaFalsiPre with bisection's test, which lets a zero product through.
RegulaFalsiPreStrict(f, x, y) ==
    IF Gt(Mul(F(f, x), F(f, y)), Zero) THEN Returned(FALSE, Zero, 2)
    ELSE Through(2)

\* Lines 43-45: the sign precondition.
RegulaFalsiPre(f, x, y) ==
    IF Ge(Mul(F(f, x), F(f, y)), Zero) THEN Returned(FALSE, Zero, 2)
    ELSE Through(2)

\* Line 50: the false-position point.
FalsePosition(f, x, y) ==
    Sub(x, Div(Mul(F(f, x), Sub(y, x)), Sub(F(f, y), F(f, x))))

\* Line 48: the loop test.
RegulaFalsiLoopTest(n) == n < MaxIter

\* RegulaFalsiBody with the two assignments exchanged.
RegulaFalsiBodySwapped(f, x, y) ==
    LET c == FalsePosition(f, x, y)
    IN  IF Lt(Abs(F(f, c)), Tol) \/ Lt(Abs(Sub(y, x)), Tol)
          THEN [o |-> Returned(TRUE, c, 4), a |-> x, b |-> y]
        ELSE IF Gt(Mul(F(f, x), F(f, c)), Zero)
          THEN [o |-> Through(6), a |-> x, b |-> c]
        ELSE [o |-> Through(6), a |-> c, b |-> y]

\* Lines 50-62: one execution of the loop body on the bracket [x, y].
RegulaFalsiBody(f, x, y) ==
    LET c == FalsePosition(f, x, y)
    IN  IF Lt(Abs(F(f, c)), Tol) \/ Lt(Abs(Sub(y, x)), Tol)
          THEN [o |-> Returned(TRUE, c, 4), a |-> x, b |-> y]
        ELSE IF Gt(Mul(F(f, x), F(f, c)), Zero)
          THEN [o |-> Through(6), a |-> c, b |-> y]
        ELSE [o |-> Through(6), a |-> x, b |-> c]

RegulaFalsiEntry ==
    /\ solver = "regula_falsi"
    /\ pc = "entry"
    /\ Apply(RegulaFalsiPre(fn, a, b))
    /\ count' = 0
    /\ UNCHANGED <<solver, fn, a0, b0, c0, a, b, xn, prev_xn, iters, divs>>

RegulaFalsiIter ==
    /\ solver = "regula_falsi"
    /\ pc = "loop"
    /\ RegulaFalsiLoopTest(count)
    /\ LET r == RegulaFalsiBody(fn, a, b)
       IN  /\ Apply(r.o)
           /\ a' = r.a
           /\ b' = r.b
           /\ count' = IF r.o.ret = "none" THEN count + 1 ELSE count
    /\ iters' = iters + 1
    /\ UNCHANGED <<solver, fn, a0, b0, c0, xn, prev_xn, divs>>

RegulaFalsiExhaust ==
    /\ solver = "regula_falsi"
    /\ pc = "loop"
    /\ ~RegulaFalsiLoopTest(count)
    /\ GiveUp
    /\ UNCHANGED <<solver, fn, a0, b0, c0, a, b, xn, prev_xn, count, iters, divs>>

----------------------------------------------------------------------------
(* newton_raphson, roots.cpp lines 69-108.                                 *)

\* Line 78: the loop counter starts at 1.
NewtonFirstCount == 1

\* Line 78: the loop test.
NewtonLoopTest(n) == n < MaxIter

\* NewtonUnstable, testing for an exact zero only.
NewtonUnstableExact(dfx) == Eq(dfx, Zero)

\* Line 85: the derivative is too small to divide by.
NewtonUnstable(dfx) == Lt(Abs(dfx), Tol)

\* Lines 93 and 133: the iterate left [lo, hi].
OutOfBounds(next, lo, hi) == Lt(next, lo) \/ Gt(next, hi)

\* Lines 98 and 138: the step is below the tolerance.
Converged(next, x) == Lt(Abs(Sub(next, x)), Tol)

\* Line 90: the Newton step.
NewtonNext(fx, dfx, x) == Sub(x, Div(fx, dfx))

\* NewtonBody with the convergence test ahead of the bounds test.
NewtonBodyConvergedFirst(f, x, lo, hi) ==
    LET fx == F(f, x)
        dfx == G(f, x)
        next == NewtonNext(fx, dfx, x)
    IN  IF NewtonUnstable(dfx)
          THEN [o |-> Returned(FALSE, Zero, 1), xn |-> x, divs |-> 0]
        ELSE IF Converged(next, x)
          THEN [o |-> Returned(TRUE, next, 1), xn |-> x, divs |-> 1]
        ELSE IF OutOfBounds(next, lo, hi)
          THEN [o |-> Returned(FALSE, Zero, 1), xn |-> x, divs |-> 1]
        ELSE [o |-> Through(1), xn |-> next, divs |-> 1]

\* Lines 81-103: one execution of the loop body at the iterate x with the
\* bounds lo, hi; divs is the number of quotients it computed.
NewtonBody(f, x, lo, hi) ==
    LET fx == F(f, x)
        dfx == G(f, x)
        next == NewtonNext(fx, dfx, x)
    IN  IF NewtonUnstable(dfx)
          THEN [o |-> Returned(FALSE, Zero, 1), xn |-> x, divs |-> 0]
        ELSE IF OutOfBounds(next, lo, hi)
          THEN [o |-> Returned(FALSE, Zero, 1), xn |-> x, divs |-> 1]
        ELSE IF Converged(next, x)
          THEN [o |-> Returned(TRUE, next, 1), xn |-> x, divs |-> 1]
        ELSE [o |-> Through(1), xn |-> next, divs |-> 1]

\* Lines 75-78: xn = c and the loop counter is set.
NewtonEntry ==
    /\ solver = "newton_raphson"
    /\ pc = "entry"
    /\ xn' = c0
    /\ count' = NewtonFirstCount
    /\ pc' = "loop"
    /\ UNCHANGED <<solver, fn, a0, b0, c0, a, b, prev_xn, ret, root, writes,
                   calls, iters, divs>>

NewtonIter ==
    /\ solver = "newton_raphson"
    /\ pc = "loop"
    /\ NewtonLoopTest(count)
    /\ LET r == NewtonBody(fn, xn, a, b)
       IN  /\ Apply(r.o)
           /\ xn' = r.xn
           /\ divs' = divs + r.divs
           /\ count' = IF r.o.ret = "none" THEN count + 1 ELSE count
    /\ iters' = iters + 1
    /\ UNCHANGED <<solver, fn, a0, b0, c0, a, b, prev_xn>>

NewtonExhaust ==
    /\ solver = "newton_raphson"
    /\ pc = "loop"
    /\ ~NewtonLoopTest(count)
    /\ GiveUp
    /\ UNCHANGED <<solver, fn, a0, b0, c0, a, b, xn, prev_xn, count, iters, divs>>

----------------------------------------------------------------------------
(* secant, roots.cpp lines 110-149.                                        *)

\* Line 119: the loop test.
SecantLoopTest(n) == n < MaxIter

\* Line 125: the two function values are too close to divide by their
\* difference.
SecantUnstable(fxn, fprev_xn) == Lt(Abs(Sub(fxn, fprev_xn)), Tol)

\* Line 130: the secant step.
SecantNext(fxn, fprev_xn, x, p) ==
    Sub(x, Div(Mul(fxn, Sub(x, p)), Sub(fxn, fprev_xn)))

\* Lines 121-144: one execution of the loop body at the iterates p
\* (prev_xn) and x (xn) with the bounds lo, hi.
SecantBody(f, p, x, lo, hi) ==
    LET fxn == F(f, x)
        fprev_xn == F(f, p)
        next == SecantNext(fxn, fprev_xn, x, p)
    IN  IF SecantUnstable(fxn, fprev_xn)
          THEN [o |-> Returned(FALSE, Zero, 2), prev_xn |-> p, xn |-> x]
        ELSE IF OutOfBounds(next, lo, hi)
          THEN [o |-> Returned(FALSE, Zero, 2), prev_xn |-> p, xn |-> x]
        ELSE IF Converged(next, x)
          THEN [o |-> Returned(TRUE, next, 2), prev_xn |-> p, xn |-> x]
        ELSE [o |-> Through(2), prev_xn |-> x, xn |-> next]

\* Lines 115-119: prev_xn = a, xn = b and the loop counter is set; the
\* parameter c is not read.
SecantEntry ==
    /\ solver = "secant"
    /\ pc = "entry"
    /\ prev_xn' = a
    /\ xn' = b
    /\ count' = 0
    /\ pc' = "loop"
    /\ UNCHANGED <<solver, fn, a0, b0, c0, a, b, ret, root, writes, calls,
                   iters, divs>>

SecantIter ==
    /\ solver = "secant"
    /\ pc = "loop"
    /\ SecantLoopTest(count)
    /\ LET r == SecantBody(fn, prev_xn, xn, a, b)
       IN  /\ Apply(r.o)
           /\ prev_xn' = r.prev_xn
           /\ xn' = r.xn
           /\ count' = IF r.o.ret = "none" THEN count + 1 ELSE count
    /\ iters' = iters + 1
    /\ UNCHANGED <<solver, fn, a0, b0, c0, a, b, divs>>

SecantExhaust ==
    /\ solver = "secant"
    /\ pc = "loop"
    /\ ~SecantLoopTest(count)
    /\ GiveUp
    /\ UNCHANGED <<solver, fn, a0, b0, c0, a, b, xn, prev_xn, count, iters, divs>>

----------------------------------------------------------------------------
Next ==
    \/ BisectionEntry
    \/ BisectionIter
    \/ BisectionExhaust
    \/ RegulaFalsiEntry
    \/ RegulaFalsiIter
    \/ RegulaFalsiExhaust
    \/ NewtonEntry
    \/ NewtonIter
    \/ NewtonExhaust
    \/ SecantEntry
    \/ SecantIter
    \/ SecantExhaust

Spec == Init /\ [][Next]_vars

----------------------------------------------------------------------------
(* Properties.                                                             *)

Bracketing == {"bisection", "regula_falsi"}
Open == {"newton_raphson", "secant"}

\* The call returned because its loop test failed: the counter reaches
\* MaxIter only by falling through the loop body.
Exhausted == pc = "done" /\ count = MaxIter

\* C1: when a call returns false *root still holds what it held before the
\* call and was never assigned; *root is assigned only by a call that
\* returns true, and then exactly once.
C1_RootFrame ==
    /\ (pc = "done" /\ ret = "false") => (root = RootBefore /\ writes = 0)
    /\ (pc # "done") => (root = RootBefore /\ writes = 0)
    /\ (writes > 0) => (pc = "done" /\ ret = "true")
    /\ (pc = "done" /\ ret = "true") => writes = 1

\* A call failed after running its loop to the cap, *root untouched.
C1_Witness ==
    /\ pc = "done"
    /\ ret = "false"
    /\ iters = MaxIter
    /\ root = RootBefore

\* f is monotonic between x and y (for the callables of the family).
MonotoneOn(f, x, y) ==
    \/ f \in {"lin", "steep", "flat"}
    \/ /\ f \in {"sqm2", "sqs", "zig"}
       /\ \/ Ge(x, Zero) /\ Ge(y, Zero)
          \/ Le(x, Zero) /\ Le(y, Zero)

\* f(x) and f(y) are not of the same strict sign.
SignChange(f, x, y) ==
    ~(\/ Gt(F(f, x), Zero) /\ Gt(F(f, y), Zero)
      \/ Lt(F(f, x), Zero) /\ Lt(F(f, y), Zero))

\* C2: for a monotonic f that changes sign over [a, b], bisection and
\* regula_falsi return true, and the root returned has |f(root)| < 1e-6 or
\* the bracket is narrower than 1e-6 at the return.  The calls that run out
\* of the (scaled) iteration cap are left out of the statement.
C2_MonotoneBracketSucceeds ==
    ( /\ solver \in Bracketing
      /\ pc = "done"
      /\ ~Exhausted
      /\ MonotoneOn(fn, a0, b0)
      /\ SignChange(fn, a0, b0) )
    => /\ ret = "true"
       /\ Lt(Abs(F(fn, root)), Tol) \/ Lt(Abs(Sub(b, a)), Tol)

\* C3: bisection returns true with *root = a when f(a) is exactly 0, and
\* otherwise true with *root = b when f(b) is exactly 0, without entering
\* the loop, whatever f is at the other endpoint.
C3_BisectionEndpointRoot ==
    solver = "bisection" =>
      /\ Eq(F(fn, a0), Zero) =>
           /\ pc # "loop"
           /\ iters = 0
           /\ pc = "done" => (ret = "true" /\ root = a0 /\ writes = 1)
      /\ (~Eq(F(fn, a0), Zero) /\ Eq(F(fn, b0), Zero)) =>
           /\ pc # "loop"
           /\ iters = 0
           /\ pc = "done" => (ret = "true" /\ root = b0 /\ writes = 1)

\* Both endpoints are roots, they differ, and a was returned.
C3_Witness ==
    /\ solver = "bisection"
    /\ pc = "done"
    /\ Eq(F(fn, a0), Zero)
    /\ Eq(F(fn, b0), Zero)
    /\ a0 # b0
    /\ ret = "true"
    /\ root = a0

\* C4: regula_falsi returns false without a loop iteration whenever
\* f(a)*f(b) >= 0, an endpoint that is a root included; it reaches its loop
\* only with f(a), f(b) nonzero and of strictly opposite signs.
C4_RegulaFalsiPrecondition ==
    solver = "regula_falsi" =>
      LET fa == F(fn, a0)
          fb == F(fn, b0)
          opposite == \/ Lt(fa, Zero) /\ Gt(fb, Zero)
                      \/ Gt(fa, Zero) /\ Lt(fb, Zero)
      IN  /\ ~opposite =>
               /\ pc # "loop"
               /\ iters = 0
               /\ pc = "done" => (ret = "false" /\ writes = 0)
          /\ (pc = "loop" \/ iters > 0) => opposite

\* regula_falsi refused a bracket whose endpoint a is a root and whose
\* endpoint b is not.
C4_Witness ==
    /\ solver = "regula_falsi"
    /\ pc = "done"
    /\ Eq(F(fn, a0), Zero)
    /\ ~Eq(F(fn, b0), Zero)
    /\ ret = "false"
    /\ iters = 0

\* C5: an iteration of newton_raphson that finds |g(xn)| < 1e-6 returns
\* false without computing the quotient f(xn)/g(xn), whatever f(xn) is; with
\* |g(c)| < 1e-6 at the initial guess the call returns false in its first
\* iteration.
C5_NewtonDerivativeGuard ==
    /\ [][ ( /\ solver = "newton_raphson"
             /\ pc = "loop"
             /\ iters' = iters + 1
             /\ Lt(Abs(G(fn, xn)), Tol) )
           => ( /\ pc' = "done"
                /\ ret' = "false"
                /\ divs' = divs
                /\ writes' = writes ) ]_vars
    /\ []( ( /\ solver = "newton_raphson"
             /\ pc = "done"
             /\ Lt(Abs(G(fn, c0)), Tol) )
           => (ret = "false" /\ iters = 1 /\ divs = 0) )

\* newton_raphson failed on the derivative guard at an iterate that is a
\* root of f.
C5_Witness ==
    /\ solver = "newton_raphson"
    /\ pc = "done"
    /\ iters >= 1
    /\ Lt(Abs(G(fn, xn)), Tol)
    /\ Eq(F(fn, xn), Zero)
    /\ ret = "false"
    /\ divs = iters - 1

\* C6: newton_raphson and secant never assign a or b; a root they return
\* lies in [a, b] of the arguments, and so does every iterate they adopt;
\* they never return true when a > b.
C6_WithinBounds ==
    solver \in Open =>
      /\ a = a0
      /\ b = b0
      /\ (pc = "done" /\ ret = "true") =>
           (Le(a0, root) /\ Le(root, b0) /\ ~Gt(a0, b0))
      /\ (pc = "loop" /\ iters >= 1) => (Le(a0, xn) /\ Le(xn, b0))

\* newton_raphson returned false on a step that left [a, b] although the
\* step was shorter than 1e-6.
C6_Witness ==
    /\ solver = "newton_raphson"
    /\ pc = "done"
    /\ ret = "false"
    /\ ~Exhausted
    /\ ~NewtonUnstable(G(fn, xn))
    /\ LET next == NewtonNext(F(fn, xn), G(fn, xn), xn)
       IN  OutOfBounds(next, a0, b0) /\ Converged(next, xn)

\* The number of steps a call can still take: the entry code, then one per
\* value the loop counter has yet to pass, then the failing loop test.
Rank ==
    CASE pc = "entry" -> MaxIter + 2
      [] pc = "loop"  -> MaxIter + 1 - count
      [] pc = "done"  -> 0

\* C7: every call returns: every step of a call brings it closer to its
\* return (Rank decreases and is never negative; a call that has not
\* returned is at its entry or at a loop test, where one of its actions is
\* enabled); the loop body runs at most MaxIter times, and a call whose loop
\* ran to the cap returns false.
C7_Terminates ==
    /\ [](Rank >= 0)
    /\ [][Rank' < Rank]_vars
    /\ [](iters <= MaxIter)
    /\ [](Exhausted => ret = "false")

\* A loop ran its body MaxIter times and the call returned false.
C7_Witness ==
    /\ Exhausted
    /\ iters = MaxIter
    /\ ret = "false"

\* C8: the four solvers have the same budget: a call gives up only after
\* its loop body ran exactly MaxIter times.
C8_SameBudget == Exhausted => iters = MaxIter

\* The calls of f bisection makes before its loop (lines 8, 9, 12).
EndpointCalls == 4

\* C9 as stated: bisection invokes f at most twice in an iteration, and at
\* most 2*MaxIter + EndpointCalls times in a call.
C9_TwoCallsPerIteration ==
    /\ [][ (solver = "bisection" /\ iters' = iters + 1)
           => calls' <= calls + 2 ]_vars
    /\ [](solver = "bisection" => calls <= 2 * MaxIter + EndpointCalls)

\* C9 as amended: bisection invokes f at most three times in an iteration,
\* and at most 3*MaxIter + EndpointCalls times in a call.
C9_ThreeCallsPerIteration ==
    solver = "bisection" =>
      /\ calls <= 3 * iters + EndpointCalls
      /\ iters <= MaxIter
      /\ calls <= 3 * MaxIter + EndpointCalls

\* bisection ran out of iterations having called f 3*MaxIter + 4 times.
C9_Witness ==
    /\ solver = "bisection"
    /\ pc = "done"
    /\ calls = 3 * MaxIter + EndpointCalls

\* The trial point of a bracketing solver on the bracket [x, y].
Trial(s, f, x, y) ==
    IF s = "bisection" THEN Midpoint(x, y) ELSE FalsePosition(f, x, y)

\* C10: at every loop test of bisection and regula_falsi f(a) and f(b) are
\* nonzero with strictly opposite signs, so f(b) - f(a) is not zero and the
\* trial point lies strictly between a and b; an iteration that continues
\* had |f(c)| >= 1e-6 and replaced a by c exactly when f(a)*f(c) > 0, and b
\* by c otherwise.
C10_BracketKept ==
    /\ []( (solver \in Bracketing /\ pc = "loop") =>
             LET fa == F(fn, a)
                 fb == F(fn, b)
                 c == Trial(solver, fn, a, b)
             IN  /\ Lt(Mul(fa, fb), Zero)
                 /\ ~Eq(fa, Zero) /\ ~Eq(fb, Zero)
                 /\ ~Eq(Sub(fb, fa), Zero)
                 /\ \/ Lt(a, c) /\ Lt(c, b)
                    \/ Lt(b, c) /\ Lt(c, a) )
    /\ [][ (solver \in Bracketing /\ pc = "loop" /\ pc' = "loop") =>
             LET c == Trial(solver, fn, a, b)
             IN  /\ Ge(Abs(F(fn, c)), Tol)
                 /\ IF Gt(Mul(F(fn, a), F(fn, c)), Zero)
                      THEN a' = c /\ b' = b
                      ELSE a' = a /\ b' = c ]_vars

\* regula_falsi is at its loop test after two updates of the bracket.
C10_Witness ==
    /\ solver = "regula_falsi"
    /\ pc = "loop"
    /\ iters >= 2
    /\ count < MaxIter

====
